---------------------------- MODULE Spec2Model ----------------------------
(***************************************************************************)
(* A model of src/content/htmlContentProvider.ts (HTMLContentProvider):    *)
(* the style-key table, the stylesheet compiler and emitter, the colour    *)
(* inversion rule, the HTML escaping, the escape-code filter and the       *)
(* streaming render of one document into an output sink.                   *)
(*                                                                         *)
(* Text is a sequence of one-character strings.  Generated markup is a     *)
(* sequence of tokens: literal markup pieces, class attributes, and the    *)
(* characters of the escaped text.  JavaScript values are tagged records   *)
(* (JsNull, JsString, JsObject); an object keeps its entries in insertion  *)
(* order, as Object.entries sees them.                                     *)
(***************************************************************************)
EXTENDS Naturals, Sequences, FiniteSets, TLC

VARIABLES
    customCss,        \* this._customCss
    fontSettings,     \* this._fontSettings
    styles,           \* this._styles
    pc,               \* where the call of provideTextDocumentContent stands
    doc,              \* the segments the parser produces for the document
    state,            \* the state argument: TRUE in preview mode, FALSE on export
    idx,              \* the number of segments the parser has handed over so far
    sent,             \* the chunks handed to the callback, in order
    accepted,         \* how many of those calls the callback has settled
    cancelRequested,  \* the host has asked to cancel the render in flight
    arg,              \* the argument of a pure function applied on its own
    ret,              \* its result
    called            \* whether the function has returned

vars == <<customCss, fontSettings, styles, pc, doc, state, idx, sent, accepted,
          cancelRequested, arg, ret, called>>

renderVars == <<customCss, fontSettings, styles, pc, doc, state, idx, sent,
                accepted, cancelRequested>>

fnVars == <<arg, ret, called>>

(***************************************************************************)
(* Bounds of the model.                                                    *)
(***************************************************************************)
MaxSegments == 2      \* segments of a rendered document
MaxSettings == 1      \* configured style keys of a compiled settings list
MaxEscapeLen == 4     \* characters of a text given to escapeHtml
MaxStripLen == 4      \* characters of a text given to stripEscapeCodes

(***************************************************************************)
(* Sequence helpers.                                                       *)
(***************************************************************************)
RECURSIVE SeqsUpTo(_, _)
SeqsUpTo(S, n) ==
    IF n = 0 THEN {<<>>}
    ELSE LET shorter == SeqsUpTo(S, n - 1)
         IN  shorter \cup {Append(s, x) : s \in {t \in shorter : Len(t) = n - 1}, x \in S}

(***************************************************************************)
(* JavaScript values.                                                      *)
(***************************************************************************)
JsNull == [t |-> "null"]
JsString(s) == [t |-> "string", v |-> s]
JsObject(entries) == [t |-> "object", e |-> entries]

\* typeof value: null is an "object" too
TypeOf(value) == IF value.t = "null" THEN "object" ELSE value.t

\* key in object
HasKey(object, key) == \E i \in 1..Len(object.e) : object.e[i][1] = key

\* object[key], for a key the object has
Get(object, key) ==
    object.e[CHOOSE i \in 1..Len(object.e) : object.e[i][1] = key][2]

\* Object.fromEntries: a repeated key keeps its first place and its last value
RECURSIVE FromEntries(_)
FromEntries(entries) ==
    IF entries = <<>> THEN <<>>
    ELSE LET n == Len(entries)
             last == entries[n]
             before == FromEntries(SubSeq(entries, 1, n - 1))
         IN  IF \E i \in 1..Len(before) : before[i][1] = last[1]
             THEN [i \in 1..Len(before) |->
                      IF before[i][1] = last[1] THEN last ELSE before[i]]
             ELSE Append(before, last)

(***************************************************************************)
(* generateKeyMappings: the style-key table.                               *)
(***************************************************************************)
Colors ==
    << <<"default", "de">>, <<"inverted", "in">>, <<"black", "bl">>,
       <<"red", "re">>, <<"green", "gr">>, <<"yellow", "yl">>,
       <<"blue", "blu">>, <<"magenta", "mg">>, <<"cyan", "cy">>,
       <<"light-gray", "lg">>, <<"dark-gray", "dg">>, <<"light-red", "lr">>,
       <<"light-green", "lgr">>, <<"light-yellow", "ly">>, <<"light-blue", "lb">>,
       <<"light-magenta", "lm">>, <<"light-cyan", "lc">>, <<"white", "wh">> >>

Attributes ==
    << <<"bold", "bo">>, <<"dim", "di">>, <<"underlined", "ul">>,
       <<"blink", "bl">>, <<"inverted", "in">>, <<"hidden", "hi">> >>

ColorNames == {Colors[i][1] : i \in 1..Len(Colors)}

AttributeNames == [i \in 1..Len(Attributes) |-> Attributes[i][1]]

generateKeyMappings ==
    LET structural == << <<"foreground", "fg">>, <<"background", "bg">>,
                         <<"text", "te">>, <<"escape-sequence", "es">> >>
        fore == [i \in 1..Len(Colors) |->
                    <<"foreground-color-" \o Colors[i][1], "fg-" \o Colors[i][2]>>]
        back == [i \in 1..Len(Colors) |->
                    <<"background-color-" \o Colors[i][1], "bg-" \o Colors[i][2]>>]
        attr == [i \in 1..Len(Attributes) |->
                    <<"attribute-" \o Attributes[i][1], "at-" \o Attributes[i][2]>>]
    IN  structural \o fore \o back \o attr

StyleKeys == {generateKeyMappings[i][1] : i \in 1..Len(generateKeyMappings)}

\* Map.get of a key the table lacks is undefined; a template literal prints it
\* as the text "undefined", which is no token of the table
Undefined == "undefined"

\* _getShortKey: this._styleKeyMappings.get(key)!
getShortKey(key) ==
    IF key \in StyleKeys
    THEN generateKeyMappings[CHOOSE i \in 1..Len(generateKeyMappings) :
                                 generateKeyMappings[i][1] = key][2]
    ELSE Undefined

\* Array.prototype.join(' '): an undefined element joins as the empty string
RECURSIVE Join(_)
Join(classes) ==
    IF classes = <<>> THEN ""
    ELSE LET n == Len(classes)
             item == IF classes[n] = Undefined THEN "" ELSE classes[n]
         IN  IF n = 1 THEN item
             ELSE Join(SubSeq(classes, 1, n - 1)) \o " " \o item

(***************************************************************************)
(* _loadStyles: the selector -> properties tree of the configured styles.  *)
(* settings is the list getSettings() yields: <<key, value>> pairs, value  *)
(* a record with the field previewStyle.                                   *)
(***************************************************************************)
\* The rules one configured key contributes (the body of the for loop)
StyleRules(key, previewSettings) ==
    LET darkSettingsExist == HasKey(previewSettings, "dark")
        lightSettingsExist == HasKey(previewSettings, "light")
        highContrastSettingsExist == HasKey(previewSettings, "high-contrast")
        shortKey == getShortKey(key)
        Themed(exists, theme) ==
            IF exists /\ TypeOf(Get(previewSettings, theme)) = "object"
            THEN <<".vscode-" \o theme \o " ." \o shortKey, Get(previewSettings, theme)>>
            ELSE <<".vscode-" \o theme \o " ." \o shortKey, JsObject(<<>>)>>
    IN  IF ~darkSettingsExist /\ ~lightSettingsExist /\ ~highContrastSettingsExist
        THEN << <<"." \o shortKey, previewSettings>> >>
        ELSE << Themed(darkSettingsExist, "dark"),
                Themed(lightSettingsExist, "light"),
                Themed(highContrastSettingsExist, "high-contrast") >>

\* 'dark' in previewSettings throws a TypeError when previewSettings is no object
loadStylesThrows(settings) ==
    \E i \in 1..Len(settings) : settings[i][2].previewStyle.t # "object"

RECURSIVE StyleEntries(_)
StyleEntries(settings) ==
    IF settings = <<>> THEN <<>>
    ELSE StyleRules(Head(settings)[1], Head(settings)[2].previewStyle)
             \o StyleEntries(Tail(settings))

loadStyles(settings) == JsObject(FromEntries(StyleEntries(settings)))

(***************************************************************************)
(* _generateCss: the text of a properties tree, as tokens.                 *)
(***************************************************************************)
RECURSIVE generateCss(_)
RECURSIVE generateCssEntries(_)
generateCssEntries(entries) ==
    IF entries = <<>> THEN <<>>
    ELSE LET key == Head(entries)[1]
             value == Head(entries)[2]
             css == IF value.t = "null" THEN <<>>
                    ELSE IF TypeOf(value) = "object"
                    THEN <<key, " {\n">> \o generateCss(value) \o <<"}\n">>
                    ELSE IF TypeOf(value) = "string"
                    THEN <<key, ": ", value.v, ";\n">>
                    ELSE <<>>
         IN  css \o generateCssEntries(Tail(entries))

generateCss(properties) == generateCssEntries(properties.e)

(***************************************************************************)
(* _getColors: the effective foreground and background of a segment.       *)
(***************************************************************************)
\* Map.get
ContextGet(context, key) ==
    IF key \in DOMAIN context THEN context[key] ELSE Undefined

\* The swap without the sentinel for default
getColorsNoSentinel(context) ==
    IF ContextGet(context, "inverted") = "yes"
    THEN <<ContextGet(context, "background-color"),
           ContextGet(context, "foreground-color")>>
    ELSE <<ContextGet(context, "foreground-color"),
           ContextGet(context, "background-color")>>

getColors(context) ==
    IF ContextGet(context, "inverted") = "yes"
    THEN LET foregroundColor == ContextGet(context, "background-color")
             backgroundColor == ContextGet(context, "foreground-color")
         IN  << IF foregroundColor = "default" THEN "inverted" ELSE foregroundColor,
                IF backgroundColor = "default" THEN "inverted" ELSE backgroundColor >>
    ELSE << ContextGet(context, "foreground-color"),
            ContextGet(context, "background-color") >>

(***************************************************************************)
(* _escapeHtml: six replacements, one after the other.                     *)
(***************************************************************************)
\* String.prototype.replace(/c/g, replacement) for a one-character pattern
RECURSIVE ReplaceAll(_, _, _)
ReplaceAll(value, c, replacement) ==
    IF value = <<>> THEN <<>>
    ELSE (IF Head(value) = c THEN replacement ELSE <<Head(value)>>)
             \o ReplaceAll(Tail(value), c, replacement)

\* The ampersand replaced last, over the entities the other steps wrote
escapeHtmlAmpersandLast(value) ==
    LET r1 == ReplaceAll(value, "<", <<"&", "l", "t", ";">>)
        r2 == ReplaceAll(r1, ">", <<"&", "g", "t", ";">>)
        r3 == ReplaceAll(r2, "\"", <<"&", "q", "u", "o", "t", ";">>)
        r4 == ReplaceAll(r3, "'", <<"&", "#", "0", "3", "9", ";">>)
        r5 == ReplaceAll(r4, " ", <<"&", "n", "b", "s", "p", ";">>)
    IN  ReplaceAll(r5, "&", <<"&", "a", "m", "p", ";">>)

escapeHtml(value) ==
    LET r1 == ReplaceAll(value, "&", <<"&", "a", "m", "p", ";">>)
        r2 == ReplaceAll(r1, "<", <<"&", "l", "t", ";">>)
        r3 == ReplaceAll(r2, ">", <<"&", "g", "t", ";">>)
        r4 == ReplaceAll(r3, "\"", <<"&", "q", "u", "o", "t", ";">>)
        r5 == ReplaceAll(r4, "'", <<"&", "#", "0", "3", "9", ";">>)
    IN  ReplaceAll(r5, " ", <<"&", "n", "b", "s", "p", ";">>)

(***************************************************************************)
(* _stripEscapeCodes: two global regular-expression replacements.  A match *)
(* is tried at each position from the left; after a match the search goes  *)
(* on behind it.  "ESC" stands for the one character U+001B.               *)
(***************************************************************************)
ESC == "ESC"

Digits == {"0", "1", "2", "3", "4", "5", "6", "7", "8", "9"}

\* The first position from i on whose character is not in class (Len + 1: none)
RECURSIVE RunEnd(_, _, _)
RunEnd(text, i, class) ==
    IF i <= Len(text) /\ text[i] \in class THEN RunEnd(text, i + 1, class) ELSE i

\* class* followed by one character of final, from position i: the position
\* behind the match, or 0.  No character of a final set is in its class, so
\* the greedy run is the only candidate.
StarThen(text, i, class, final) ==
    LET j == RunEnd(text, i, class)
    IN  IF j <= Len(text) /\ text[j] \in final THEN j + 1 ELSE 0

FirstMatch(ends) ==
    IF \E k \in 1..Len(ends) : ends[k] > 0
    THEN ends[CHOOSE k \in 1..Len(ends) :
                  ends[k] > 0 /\ \A m \in 1..(k - 1) : ends[m] = 0]
    ELSE 0

\* /\x1B\[([0-9?]*[hl]|[0-9;]*[mrHfy]|[0-9]*[ABCDgKJnqi]|[0-9;?]*[c])/ at i:
\* the position behind the match, or 0
CsiMatch(text, i) ==
    IF i + 1 <= Len(text) /\ text[i] = ESC /\ text[i + 1] = "["
    THEN FirstMatch(<<
             StarThen(text, i + 2, Digits \cup {"?"}, {"h", "l"}),
             StarThen(text, i + 2, Digits \cup {";"}, {"m", "r", "H", "f", "y"}),
             StarThen(text, i + 2, Digits,
                      {"A", "B", "C", "D", "g", "K", "J", "n", "q", "i"}),
             StarThen(text, i + 2, Digits \cup {";", "?"}, {"c"}) >>)
    ELSE 0

\* /\x1B([NODMEHc<=>FGABCDHIKJ]|[()][AB012]|#[0-9]|[0-9;]R|\/?Z|[0-9]+
\*       |O[PQRSABCDpqrstuvwxymlnM])/ at i: the position behind the match, or 0
EscMatch(text, i) ==
    LET At(k) == IF k <= Len(text) THEN text[k] ELSE ""
        One(set) == IF At(i + 1) \in set THEN i + 2 ELSE 0
        Two(first, second) ==
            IF At(i + 1) \in first /\ At(i + 2) \in second THEN i + 3 ELSE 0
        run == RunEnd(text, i + 1, Digits)
    IN  IF i <= Len(text) /\ text[i] = ESC
        THEN FirstMatch(<<
                 One({"N", "O", "D", "M", "E", "H", "c", "<", "=", ">", "F", "G",
                      "A", "B", "C", "I", "K", "J"}),
                 Two({"(", ")"}, {"A", "B", "0", "1", "2"}),
                 Two({"#"}, Digits),
                 Two(Digits \cup {";"}, {"R"}),
                 IF At(i + 1) = "/" /\ At(i + 2) = "Z" THEN i + 3
                 ELSE IF At(i + 1) = "Z" THEN i + 2 ELSE 0,
                 IF run > i + 1 THEN run ELSE 0,
                 Two({"O"}, {"P", "Q", "R", "S", "A", "B", "C", "D", "p", "q", "r",
                             "s", "t", "u", "v", "w", "x", "y", "m", "l", "n", "M"}) >>)
        ELSE 0

RECURSIVE ReplaceCsi(_, _)
ReplaceCsi(text, i) ==
    IF i > Len(text) THEN <<>>
    ELSE IF CsiMatch(text, i) > 0 THEN ReplaceCsi(text, CsiMatch(text, i))
    ELSE <<text[i]>> \o ReplaceCsi(text, i + 1)

RECURSIVE ReplaceEsc(_, _)
ReplaceEsc(text, i) ==
    IF i > Len(text) THEN <<>>
    ELSE IF EscMatch(text, i) > 0 THEN ReplaceEsc(text, EscMatch(text, i))
    ELSE <<text[i]>> \o ReplaceEsc(text, i + 1)

stripEscapeCodes(text) == ReplaceEsc(ReplaceCsi(text, 1), 1)

(***************************************************************************)
(* The configuration source (ConfigurationManager): what getCustomCss,     *)
(* getFontSettings and getSettings return at the time of a reload.         *)
(***************************************************************************)
Prop(name, value) == <<name, JsString(value)>>

ConfigA ==
    [css |-> JsObject(<< <<"a", JsObject(<<Prop("color", "red")>>)>> >>),
     font |-> JsObject(<<Prop("font-size", "12px")>>),
     settings |-> << <<"foreground",
                       [previewStyle |-> JsObject(<<Prop("color", "white")>>)]>> >>]

ConfigB ==
    [css |-> JsObject(<< <<"a", JsObject(<<Prop("color", "blue")>>)>> >>),
     font |-> JsObject(<<Prop("font-size", "14px")>>),
     settings |-> << <<"foreground",
                       [previewStyle |->
                            JsObject(<< <<"dark", JsObject(<<Prop("color", "gray")>>)>> >>)]>> >>]

\* A settings entry whose previewStyle is a string, not an object
ConfigM ==
    [css |-> JsObject(<< <<"a", JsObject(<<Prop("color", "green")>>)>> >>),
     font |-> JsObject(<<Prop("font-size", "16px")>>),
     settings |-> << <<"foreground", [previewStyle |-> JsString("bold")]>> >>]

Configs == {ConfigA, ConfigB, ConfigM}

\* The configurations a reload can take in whole
Snapshots == {c \in Configs : ~loadStylesThrows(c.settings)}

\* { 'body': getFontSettings() }
FontSettingsOf(c) == JsObject(<< <<"body", c.font>> >>)

(***************************************************************************)
(* The segments the parser hands over: the text of the range and its       *)
(* context.                                                                *)
(***************************************************************************)
Context(type, foreground, background, inverted, lineEnd, bold) ==
    ("type" :> type) @@ ("foreground-color" :> foreground)
        @@ ("background-color" :> background) @@ ("inverted" :> inverted)
        @@ ("line-end" :> lineEnd) @@ ("bold" :> bold) @@ ("dim" :> "no")
        @@ ("underlined" :> "no") @@ ("blink" :> "no") @@ ("hidden" :> "no")

Segment(text, context) == [text |-> text, context |-> context]

Segments ==
    { Segment(<<"H", "i">>, Context("text", "red", "default", "no", "yes", "yes")),
      Segment(<<"a", " ", "<">>, Context("text", "default", "blue", "yes", "no", "no")),
      Segment(<<ESC, "[", "1", "m">>,
              Context("escape-sequence", "default", "default", "no", "no", "no")),
      Segment(<<ESC, "[", "A", "x">>,
              Context("text", "default", "default", "no", "no", "no")),
      Segment(<<"x">>, Context("text", "orange", "default", "no", "no", "no")),
      Segment(<<"y">>, Context("comment", "default", "default", "no", "yes", "no")) }

Documents == SeqsUpTo(Segments, MaxSegments)

(***************************************************************************)
(* provideTextDocumentContent: the chunks it builds.                       *)
(***************************************************************************)
StyleBlock(properties) ==
    <<"<style type=\"text/css\" nonce=\"${cssNonce}\">">>
        \o generateCss(properties) \o <<"</style>">>

\* Lines 156-173, over the three style fields as read at that moment
Header(stylesNow, fontSettingsNow, customCssNow, hasState) ==
    <<"<html>", "<head>",
      "<meta http-equiv=\"Content-Security-Policy\" content=\"default-src 'none'; script-src 'nonce-${jsNonce}'; style-src 'nonce-${cssNonce}'\"></meta>",
      "<meta name=\"viewport\" content=\"width=device-width, initial-scale=1.0\">",
      "<title>", "${filename}", "</title>">>
        \o (IF hasState
            THEN <<"<script type=\"text/javascript\" nonce=\"${jsNonce}\">acquireVsCodeApi().setState(${state});</script>">>
            ELSE <<>>)
        \o StyleBlock(stylesNow) \o StyleBlock(fontSettingsNow)
        \o StyleBlock(customCssNow)
        \o <<"</head>">>
        \o (IF hasState THEN <<"<body>">> ELSE <<"<body class=\"vscode-light\">">>)

Footer == <<"</body>", "</html>">>

\* A line break whatever line-end says
LineBreakAlways(context) == <<"<br>\n">>

\* Lines 203-205
LineBreak(context) ==
    IF ContextGet(context, "line-end") = "yes" THEN <<"<br>\n">> ELSE <<>>

\* Lines 182-205: the markup of one segment that is no escape sequence
RenderLine(segment) ==
    LET context == segment.context
        colors == getColors(context)
        set == SelectSeq(AttributeNames, LAMBDA a : ContextGet(context, a) = "yes")
        foregroundClasses ==
            << getShortKey("foreground"),
               getShortKey(ContextGet(context, "type")),
               getShortKey("foreground-color-" \o colors[1]) >>
                \o [i \in 1..Len(set) |-> getShortKey("attribute-" \o set[i])]
        backgroundClasses ==
            << getShortKey("background"),
               getShortKey("background-color-" \o colors[2]) >>
    IN  <<"<span class=\"", Join(backgroundClasses), "\">">>
            \o <<"<span class=\"", Join(foregroundClasses), "\">">>
            \o escapeHtml(stripEscapeCodes(segment.text))
            \o <<"</span></span>">>
            \o LineBreak(context)

\* A chunk as the sink gets it; seg tells which segment a line was built from
Chunk(kind, seg, data) == [kind |-> kind, seg |-> seg, data |-> data]

(***************************************************************************)
(* The provider and one call of provideTextDocumentContent.                *)
(***************************************************************************)
FnIdle == arg = <<>> /\ ret = <<>> /\ called = FALSE

\* The constructor, its reloadConfiguration having returned
Init ==
    /\ \E c \in Snapshots :
           /\ customCss = c.css
           /\ fontSettings = FontSettingsOf(c)
           /\ styles = loadStyles(c.settings)
    /\ pc = "idle"
    /\ doc = <<>>
    /\ state = FALSE
    /\ idx = 0
    /\ sent = <<>>
    /\ accepted = 0
    /\ cancelRequested = FALSE
    /\ FnIdle

\* The onReload handler: the configuration source now holds c
reloadConfiguration(c) ==
    /\ customCss' = c.css
    /\ fontSettings' = FontSettingsOf(c)
    /\ styles' = IF loadStylesThrows(c.settings) THEN styles
                 ELSE loadStyles(c.settings)
    /\ UNCHANGED <<pc, doc, state, idx, sent, accepted, cancelRequested, fnVars>>

Reload == \E c \in Configs : reloadConfiguration(c)

\* Lines 149-174: the header is built and handed to the callback
provideTextDocumentContent(document, hasState) ==
    /\ pc = "idle"
    /\ doc' = document
    /\ state' = hasState
    /\ idx' = 0
    /\ sent' = <<Chunk("header", 0, Header(styles, fontSettings, customCss, hasState))>>
    /\ pc' = "header"
    /\ UNCHANGED <<customCss, fontSettings, styles, accepted, cancelRequested, fnVars>>

Provide == \E document \in Documents, hasState \in BOOLEAN :
               provideTextDocumentContent(document, hasState)

\* VT100Parser.parse: a further segment is due once the callback's promise for
\* the one before has settled
ParserHasNext == pc = "parse" /\ idx < Len(doc)

ParserAtEnd == pc = "parse" /\ idx = Len(doc)

\* The callback hands the line over without awaiting the sink
RenderSegmentNoAwait ==
    /\ ParserHasNext
    /\ idx' = idx + 1
    /\ IF ContextGet(doc[idx + 1].context, "type") = "escape-sequence"
       THEN UNCHANGED sent
       ELSE sent' = Append(sent, Chunk("line", idx + 1, RenderLine(doc[idx + 1])))
    /\ UNCHANGED <<customCss, fontSettings, styles, pc, doc, state, accepted,
                   cancelRequested, fnVars>>

\* The callback renders escape-sequence segments like any other
RenderSegmentNoSkip ==
    /\ ParserHasNext
    /\ idx' = idx + 1
    /\ sent' = Append(sent, Chunk("line", idx + 1, RenderLine(doc[idx + 1])))
    /\ pc' = "line"
    /\ UNCHANGED <<customCss, fontSettings, styles, doc, state, accepted,
                   cancelRequested, fnVars>>

\* Lines 176-208: the per-segment callback
RenderSegment ==
    /\ ParserHasNext
    /\ idx' = idx + 1
    /\ IF ContextGet(doc[idx + 1].context, "type") = "escape-sequence"
       THEN UNCHANGED <<sent, pc>>
       ELSE /\ sent' = Append(sent, Chunk("line", idx + 1, RenderLine(doc[idx + 1])))
            /\ pc' = "line"
    /\ UNCHANGED <<customCss, fontSettings, styles, doc, state, accepted,
                   cancelRequested, fnVars>>

\* Lines 210-212: parse has returned
EmitFooter ==
    /\ ParserAtEnd
    /\ sent' = Append(sent, Chunk("footer", 0, Footer))
    /\ pc' = "footer"
    /\ UNCHANGED <<customCss, fontSettings, styles, doc, state, idx, accepted,
                   cancelRequested, fnVars>>

\* The promise of the outstanding callback call resolves: the await returns
SinkAccept ==
    /\ accepted < Len(sent)
    /\ pc \notin {"done", "failed"}
    /\ accepted' = accepted + 1
    /\ pc' = CASE pc = "header" -> "parse"
               [] pc = "line" -> "parse"
               [] pc = "footer" -> "done"
               [] OTHER -> pc
    /\ UNCHANGED <<customCss, fontSettings, styles, doc, state, idx, sent,
                   cancelRequested, fnVars>>

\* The promise rejects: the await throws and the call ends with that error
SinkReject ==
    /\ accepted < Len(sent)
    /\ pc \notin {"done", "failed"}
    /\ accepted' = accepted + 1
    /\ pc' = "failed"
    /\ UNCHANGED <<customCss, fontSettings, styles, doc, state, idx, sent,
                   cancelRequested, fnVars>>

\* The host asks to cancel the render in flight.  provideTextDocumentContent
\* takes no cancellation token and reads no such signal.
RequestCancel ==
    /\ pc \in {"header", "parse", "line", "footer"}
    /\ ~cancelRequested
    /\ cancelRequested' = TRUE
    /\ UNCHANGED <<customCss, fontSettings, styles, pc, doc, state, idx, sent,
                   accepted, fnVars>>

Next ==
    \/ Reload
    \/ Provide
    \/ RenderSegment
    \/ EmitFooter
    \/ SinkAccept
    \/ SinkReject
    \/ RequestCancel

Spec == Init /\ [][Next]_vars

(***************************************************************************)
(* Properties of a render.                                                 *)
(***************************************************************************)
IsEscapeSequence(segment) == ContextGet(segment.context, "type") = "escape-sequence"

Rendered == {i \in 1..Len(doc) : ~IsEscapeSequence(doc[i])}

LinesOf(i) == {k \in 1..Len(sent) : sent[k].kind = "line" /\ sent[k].seg = i}

\* C1: the sink gets the header first, then the lines of the rendered segments
\* in the parser's order, then the footer last; at most one call of the sink is
\* outstanding, and while one is, the render stands at that call: no further
\* segment is processed and no further chunk is built.
SinkOrder ==
    LET n == Len(sent)
    IN  /\ accepted <= n
        /\ n <= accepted + 1
        /\ n > accepted => pc \in {"header", "line", "footer"}
        /\ pc \in {"parse", "line", "footer", "done"} => n >= 1
        /\ n >= 1 => sent[1].kind = "header"
        /\ \A k \in 2..n : sent[k].kind # "header"
        /\ \A k \in 1..n : sent[k].kind = "footer" => k = n /\ idx = Len(doc)
        /\ \A k \in 1..n : sent[k].kind = "line" => sent[k].seg \in Rendered
        /\ \A j, k \in 1..n :
               (j < k /\ sent[j].kind = "line" /\ sent[k].kind = "line")
                   => sent[j].seg < sent[k].seg
        /\ \A i \in Rendered : i <= idx => LinesOf(i) # {}
        /\ pc = "done" => sent[n].kind = "footer" /\ accepted = n

SinkOrderWitness ==
    /\ pc = "done"
    /\ Len(sent) = 4
    /\ sent[2].seg = 1
    /\ sent[3].seg = 2

\* C2 as stated: a finished render of N segments has called the sink N + 2 times
SinkCallsPerSegment == pc = "done" => Len(sent) = Len(doc) + 2

\* C2, amended: a finished render has called the sink once for the header, once
\* for each segment whose type is not escape-sequence, and once for the footer
SinkCallsPerRenderedSegment == pc = "done" => Len(sent) = Cardinality(Rendered) + 2

SinkCallsWitness ==
    /\ pc = "done"
    /\ Len(doc) = 2
    /\ Cardinality(Rendered) = 1
    /\ Len(sent) = 3

\* The markup of a segment: a background container around a foreground
\* container around the escaped text, then a line break iff line-end is yes
Wrapped(data, segment) ==
    LET text == escapeHtml(stripEscapeCodes(segment.text))
        n == Len(text)
        colors == getColors(segment.context)
        break == ContextGet(segment.context, "line-end") = "yes"
        set == SelectSeq(AttributeNames,
                         LAMBDA a : ContextGet(segment.context, a) = "yes")
    IN  /\ Len(data) = 7 + n + (IF break THEN 1 ELSE 0)
        /\ data[1] = "<span class=\""
        /\ data[2] = Join(<<"bg", getShortKey("background-color-" \o colors[2])>>)
        /\ data[3] = "\">"
        /\ data[4] = "<span class=\""
        /\ data[5] = Join(<<"fg", getShortKey(ContextGet(segment.context, "type")),
                             getShortKey("foreground-color-" \o colors[1])>>
                               \o [a \in 1..Len(set) |-> getShortKey("attribute-" \o set[a])])
        /\ data[6] = "\">"
        /\ SubSeq(data, 7, 6 + n) = text
        /\ data[7 + n] = "</span></span>"
        /\ break => data[8 + n] = "<br>\n"

\* C3: of the segments handed over so far, an escape-sequence segment has no
\* chunk, and every other segment has exactly one chunk, which holds a
\* background container around a foreground container around its escaped
\* text, followed by a line break if and only if its line-end is yes.
EscapeSequencesNeverRendered ==
    \A i \in 1..idx :
        IF IsEscapeSequence(doc[i])
        THEN LinesOf(i) = {}
        ELSE /\ Cardinality(LinesOf(i)) = 1
             /\ \A k \in LinesOf(i) : Wrapped(sent[k].data, doc[i])

EscapeSequencesWitness ==
    /\ idx = 2
    /\ IsEscapeSequence(doc[1])
    /\ ContextGet(doc[2].context, "line-end") = "yes"
    /\ Len(sent) = 2
    /\ sent[2].data[Len(sent[2].data)] = "<br>\n"

\* C4: the three style blocks of every header come from one configuration
HeaderFromOneSnapshot ==
    \A k \in 1..Len(sent) :
        sent[k].kind = "header" =>
            \E c \in Snapshots, hasState \in BOOLEAN :
                sent[k].data =
                    Header(loadStyles(c.settings), FontSettingsOf(c), c.css, hasState)

\* C5: once cancellation is requested no further line is handed to the sink
\* and the render does not end as a success
CancelStopsRender ==
    [][cancelRequested =>
          /\ pc' # "done"
          /\ Len(sent') > Len(sent) => sent'[Len(sent')].kind # "line"]_vars

\* The keys the callback looks up for a segment
KeysLookedUp(segment) ==
    LET colors == getColors(segment.context)
    IN  {ContextGet(segment.context, "type"),
         "foreground-color-" \o colors[1],
         "background-color-" \o colors[2]}

\* C6: a segment with a key outside the table ends the render: neither its
\* line nor a later one nor the footer reaches the sink
UnknownKeyAborts ==
    \A i \in 1..idx :
        (~IsEscapeSequence(doc[i]) /\ ~(KeysLookedUp(doc[i]) \subseteq StyleKeys))
            => /\ pc \notin {"line", "footer", "done"}
               /\ \A k \in 1..Len(sent) :
                      /\ sent[k].kind # "footer"
                      /\ sent[k].kind = "line" => sent[k].seg < i

(***************************************************************************)
(* The pure functions, each applied once to an input of a bounded set.     *)
(* The provider stays as constructed and no render is under way.           *)
(***************************************************************************)
RenderIdle ==
    /\ customCss = ConfigA.css
    /\ fontSettings = FontSettingsOf(ConfigA)
    /\ styles = loadStyles(ConfigA.settings)
    /\ pc = "idle"
    /\ doc = <<>>
    /\ state = FALSE
    /\ idx = 0
    /\ sent = <<>>
    /\ accepted = 0
    /\ cancelRequested = FALSE

Return(value) ==
    /\ ~called
    /\ ret' = value
    /\ called' = TRUE
    /\ UNCHANGED <<arg, renderVars>>

\* _getColors over every pair of colours of the vocabulary
ColorContexts ==
    {Context("text", f, b, i, "no", "no") :
         f \in ColorNames, b \in ColorNames, i \in {"yes", "no"}}

InitColors == RenderIdle /\ arg \in ColorContexts /\ ret = <<>> /\ called = FALSE

CallGetColors == Return(getColors(arg))

SpecColors == InitColors /\ [][CallGetColors]_vars

\* C8: with inverted = yes the foreground is the segment's background-color and
\* the background its foreground-color, each default replaced by inverted;
\* otherwise both colours are returned unchanged.
InversionCorrect ==
    called =>
        LET f == arg["foreground-color"]
            b == arg["background-color"]
            Sentinel(c) == IF c = "default" THEN "inverted" ELSE c
        IN  IF arg["inverted"] = "yes"
            THEN ret = <<Sentinel(b), Sentinel(f)>>
            ELSE ret = <<f, b>>

InversionWitness ==
    /\ called
    /\ arg["foreground-color"] = "red"
    /\ arg["background-color"] = "default"
    /\ arg["inverted"] = "yes"
    /\ ret = <<"inverted", "red">>

\* _escapeHtml over the texts of an alphabet with the six escaped characters
EscapeAlphabet == {"&", "<", ">", "\"", "'", " ", "l", "t", ";"}

InitEscape ==
    /\ RenderIdle
    /\ arg \in SeqsUpTo(EscapeAlphabet, MaxEscapeLen)
    /\ ret = <<>>
    /\ called = FALSE

CallEscapeHtml == Return(escapeHtml(arg))

SpecEscape == InitEscape /\ [][CallEscapeHtml]_vars

\* The character U+00A0
NBSP == "NBSP"

\* The character references _escapeHtml writes, and what each stands for
Entities ==
    << << <<"&", "a", "m", "p", ";">>, "&" >>,
       << <<"&", "l", "t", ";">>, "<" >>,
       << <<"&", "g", "t", ";">>, ">" >>,
       << <<"&", "q", "u", "o", "t", ";">>, "\"" >>,
       << <<"&", "#", "0", "3", "9", ";">>, "'" >>,
       << <<"&", "n", "b", "s", "p", ";">>, NBSP >> >>

EntityAt(text, i) ==
    {k \in 1..Len(Entities) :
         /\ i + Len(Entities[k][1]) - 1 <= Len(text)
         /\ SubSeq(text, i, i + Len(Entities[k][1]) - 1) = Entities[k][1]}

\* The rendering surface's decoding of character references, left to right
RECURSIVE UnescapeFrom(_, _)
UnescapeFrom(text, i) ==
    IF i > Len(text) THEN <<>>
    ELSE IF EntityAt(text, i) # {}
    THEN LET k == CHOOSE k \in EntityAt(text, i) : TRUE
         IN  <<Entities[k][2]>> \o UnescapeFrom(text, i + Len(Entities[k][1]))
    ELSE <<text[i]>> \o UnescapeFrom(text, i + 1)

unescapeHtml(text) == UnescapeFrom(text, 1)

NoRawMarkup(text) ==
    \A i \in 1..Len(text) :
        /\ text[i] # "<"
        /\ text[i] = "&" => EntityAt(text, i) # {}

\* C9 as stated: unescaping the escaped text gives the text back
EscapeRoundTrip == called => unescapeHtml(ret) = arg /\ NoRawMarkup(ret)

\* C9, amended: unescaping the escaped text gives the text with every space
\* replaced by a no-break space (so the text itself when it has no space), and
\* the escaped text has no raw < and no & that does not start one of the
\* character references the escaping writes
EscapeRoundTripNbsp ==
    called => /\ unescapeHtml(ret) = ReplaceAll(arg, " ", <<NBSP>>)
              /\ NoRawMarkup(ret)

EscapeWitness ==
    /\ called
    /\ arg = <<"&", "l", "t", ";">>
    /\ ret = <<"&", "a", "m", "p", ";", "l", "t", ";">>

\* _stripEscapeCodes over the texts of an alphabet with ESC
StripAlphabet == {ESC, "[", "1", "A", "m", "x"}

InitStrip ==
    /\ RenderIdle
    /\ arg \in SeqsUpTo(StripAlphabet, MaxStripLen)
    /\ ret = <<>>
    /\ called = FALSE

CallStripEscapeCodes == Return(stripEscapeCodes(arg))

SpecStrip == InitStrip /\ [][CallStripEscapeCodes]_vars

\* C10: the filter's output has no recognized sequence left: filtering it
\* again changes nothing
StripIdempotent == called => stripEscapeCodes(ret) = ret

\* _loadStyles and _generateCss over settings whose theme entries are absent,
\* null, a scalar, an empty mapping or a mapping
ThemeNames == <<"dark", "light", "high-contrast">>

ThemeValues ==
    {JsNull, JsString("bold"), JsObject(<<>>), JsObject(<<Prop("color", "red")>>)}

Absent == [t |-> "absent"]

PreviewStyles ==
    {JsObject(SelectSeq(<< <<"color", plain>>, <<"dark", d>>, <<"light", l>>,
                           <<"high-contrast", h>> >>,
                        LAMBDA entry : entry[2] # Absent)) :
         plain \in {Absent, JsString("white")},
         d \in ThemeValues \cup {Absent},
         l \in ThemeValues \cup {Absent},
         h \in ThemeValues \cup {Absent}}

ConfiguredKeys == {"foreground", "attribute-bold"}

\* The lists of at most n entries, no key twice
SettingsLists(n) ==
    {settings \in SeqsUpTo(ConfiguredKeys \X [previewStyle : PreviewStyles], n) :
         /\ settings # <<>>
         /\ \A i, j \in 1..Len(settings) : i # j => settings[i][1] # settings[j][1]}

InitCss == RenderIdle /\ arg \in SettingsLists(MaxSettings) /\ ret = <<>> /\ called = FALSE

CallGenerateCss == Return(generateCss(loadStyles(arg)))

SpecCss == InitCss /\ [][CallGenerateCss]_vars

\* The rules of the stylesheet text for a selector
RulesFor(css, selector) ==
    {i \in 1..(Len(css) - 1) : css[i] = selector /\ css[i + 1] = " {\n"}

\* C7: a configured key with at least one of dark, light, high-contrast in its
\* preview style has exactly one rule per theme in the stylesheet, whatever
\* the entries' values
ThemeComplete ==
    called =>
        \A i \in 1..Len(arg) :
            (\E t \in 1..3 : HasKey(arg[i][2].previewStyle, ThemeNames[t]))
                => \A t \in 1..3 :
                       Cardinality(RulesFor(ret, ".vscode-" \o ThemeNames[t] \o " ."
                                                     \o getShortKey(arg[i][1]))) = 1

=============================================================================
